---------------------------- MODULE Spec2Model ----------------------------
(***************************************************************************)
(* State-machine model of GridSearchEngine.search_grid                     *)
(* (src/backend/search_engine.py) together with the parts of               *)
(* GridCalculator (src/backend/grid_calculator.py) and PlacesAPIClient     *)
(* (src/backend/places_api.py) it drives.                                  *)
(*                                                                         *)
(* Representation.                                                         *)
(*  - Lengths are integers in units of 0.001 km, so that round(x, 2) is a  *)
(*    rounding to the nearest multiple of 10 units.                        *)
(*  - A place position (result['lat'], result['lng']) is a point of the    *)
(*    centre's meridian, given by its signed arc offset from the centre;   *)
(*    there the Haversine distance is the absolute value of the offset.    *)
(*  - A progress fraction is an exact rational [num, den] with den > 0.    *)
(*    (The float sequences the code produces were compared separately with *)
(*    the exact ones for every count up to 2000: they order identically.)  *)
(*  - progress_callback is a boolean: TRUE when the caller passed one.     *)
(*    The callback is caller code and may raise when it is invoked from    *)
(*    the body of search_grid; the invocation made by the except clause    *)
(*    returns.                                                             *)
(*  - Place ids are non-empty strings of the lookup service (1..MaxIds).   *)
(***************************************************************************)
EXTENDS Integers, Sequences, FiniteSets, TLC

(***************************************************************************)
(* Bounds of the model                                                     *)
(***************************************************************************)
MaxIds == 2
MaxGridSize == 2
MaxPlannerGridSize == 6

None == "None"

(* radius_km values given by the caller: a positive one (4.997 km, between *)
(* two steps of the 2-decimal rounding), zero and a negative one           *)
RadiusValues == {-1000, 0, 4997}

(* positions of the places the lookup service may return                   *)
PlacePositions == {1004, -4996, 5004}

(* keyword lists given by the caller: none, one, two *)
KeywordLists == {<<>>, <<"cafe">>, <<"cafe", "restaurant">>}

GridSizes == 0..MaxGridSize

(* arguments of the planner taken alone: every grid size the application   *)
(* offers (2..6) and the ones around them; radii from 0.1 km to 50 km, and *)
(* zero and a negative one                                                 *)
PlannerGridSizes == 0..MaxPlannerGridSize

PlannerRadii == {-1000, 0, 100, 4997, 5000, 50000}

PlaceIds == 1..MaxIds

VARIABLES
    radius_km,          \* argument
    keywords,           \* argument
    grid_size,          \* argument
    extract_emails,     \* argument
    progress_callback,  \* argument: TRUE iff a callback was passed
    pc,                 \* position in search_grid
    grid_points,        \* local: cells returned by the planner
    current_search,     \* local: number of (cell, keyword) passes begun
    all_results,        \* local: accepted records
    seen_place_ids,     \* local: ids accepted so far
    idx,                \* local: loop index of the progress/extraction loops
    trace,              \* observable: progress events and external calls, in order
    err,                \* the exception being propagated, None when none
    accepted,           \* history: ids in the order they were accepted
    firstKeyword,       \* history: keyword of the earliest pass returning the id within the radius
    lastNearby,         \* history: how the last nearby_search call of SEARCHING ended
    rediscovered,       \* history: the current response has returned an accepted place
                        \* again, under another keyword than the one it is tagged with
    website_url,        \* extract_emails_from_website: argument, then the normalized URL
    pages_crawled,      \* extract_emails_from_website: local
    emails,             \* extract_emails_from_website: local, the candidate set
    unique_emails,      \* _filter_and_clean_emails: local, the list while it is sorted
    unsorted,           \* _filter_and_clean_emails: the survivors the sort has not placed
    filtered_emails,    \* extract_emails_from_website: the returned list
    epc,                \* position in extract_emails_from_website
    fetched,            \* history: the URLs requested, in order
    pages_loaded,       \* history: the number of requests that succeeded
    failed_at,          \* history: the positions in `fetched` of the requests that failed
    raw_found           \* history: the pattern matches found on the pages fetched

vars == <<radius_km, keywords, grid_size, extract_emails, progress_callback,
          pc, grid_points, current_search, all_results, seen_place_ids,
          idx, trace, err, accepted, firstKeyword, lastNearby, rediscovered,
          website_url, pages_crawled, emails, unique_emails, unsorted, filtered_emails,
          epc, fetched, pages_loaded, failed_at, raw_found>>

(* the variables of search_grid *)
search == <<radius_km, keywords, grid_size, extract_emails, progress_callback,
            pc, grid_points, current_search, all_results, seen_place_ids,
            idx, trace, err, accepted, firstKeyword, lastNearby, rediscovered>>

(* the variables of extract_emails_from_website *)
extractor == <<website_url, pages_crawled, emails, unique_emails, unsorted, filtered_emails,
               epc, fetched, pages_loaded, failed_at, raw_found>>

(* extract_emails_from_website has not been called *)
ExtractorIdle ==
    /\ website_url = ""
    /\ pages_crawled = 0
    /\ emails = {}
    /\ unique_emails = <<>>
    /\ unsorted = {}
    /\ filtered_emails = <<>>
    /\ epc = "idle"
    /\ fetched = <<>>
    /\ pages_loaded = 0
    /\ failed_at = {}
    /\ raw_found = {}

args == <<radius_km, keywords, grid_size, extract_emails, progress_callback>>

(***************************************************************************)
(* Rationals                                                               *)
(***************************************************************************)
Frac(n, d) == [num |-> n, den |-> d]

FLeq(x, y) == x.num * y.den <= y.num * x.den

FEq(x, y) == x.num * y.den = y.num * x.den

(***************************************************************************)
(* Trace entries                                                           *)
(***************************************************************************)
Progress(f) == [kind |-> "progress", num |-> f.num, den |-> f.den, a |-> 0, b |-> 0]

Call(op, x, y) == [kind |-> op, num |-> 0, den |-> 1, a |-> x, b |-> y]

IsProgress(e) == e.kind = "progress"

Events == SelectSeq(trace, IsProgress)

Emit(t, f) == IF progress_callback THEN Append(t, Progress(f)) ELSE t

(***************************************************************************)
(* GridCalculator                                                          *)
(***************************************************************************)
(* km per degree of latitude, in units of 0.1 km: the planner's            *)
(* approximation (111.0), and what the Haversine formula gives with        *)
(* earth_radius_km = 6371.0 (6371 * pi / 180 = 111.19..., rounded up)      *)
LatDegreeKm == 1110

HaversineDegreeKm == 1112

(* Lattice cell (i, j) of a g x g grid lies (2i+1-g, 2j+1-g) half-steps    *)
(* from the centre; a half-step is radius_km / g along each axis.          *)
CellOffset(i, g) == 2 * i + 1 - g

(* mutant: the cell is tested along each axis, not by its distance *)
CellWithinRadiusPerAxis(i, j, g, radius) ==
    IF radius < 0 THEN FALSE
    ELSE IF radius = 0 THEN TRUE
    ELSE /\ CellOffset(i, g) * CellOffset(i, g) * HaversineDegreeKm * HaversineDegreeKm
               <= g * g * LatDegreeKm * LatDegreeKm
         /\ CellOffset(j, g) * CellOffset(j, g) * HaversineDegreeKm * HaversineDegreeKm
               <= g * g * LatDegreeKm * LatDegreeKm

(* calculate_distance(center, cell centre) <= radius_km.  The distance is  *)
(* |radius_km| / g * sqrt(a^2 + b^2) * HaversineDegreeKm / LatDegreeKm for *)
(* the cell at offsets (a, b): a negative radius mirrors the lattice and   *)
(* no distance is <= it, a zero radius puts every cell on the centre, and  *)
(* for a positive one the comparison is squared and cleared of fractions.  *)
CellWithinRadius(i, j, g, radius) ==
    IF radius < 0 THEN FALSE
    ELSE IF radius = 0 THEN TRUE
    ELSE (CellOffset(i, g) * CellOffset(i, g) + CellOffset(j, g) * CellOffset(j, g))
            * HaversineDegreeKm * HaversineDegreeKm
         <= g * g * LatDegreeKm * LatDegreeKm

(* the tuple (grid_lat, grid_lng, grid_radius) appended at line 67: the     *)
(* centre is given by its lattice position (i, j), grid_radius is the      *)
(* quotient radius_km / grid_size, kept as num / den                       *)
GridPoint(i, j, g, radius) == [i |-> i, j |-> j, num |-> radius, den |-> g]

(* mutant: the planner keeps every cell of the lattice *)
RECURSIVE GridLoopKeepsAll(_, _, _)
GridLoopKeepsAll(n, g, radius) ==
    IF n = g * g THEN <<>>
    ELSE <<GridPoint(n \div g, n % g, g, radius)>> \o GridLoopKeepsAll(n + 1, g, radius)

(* lines 57-67: the loops "for i in range(grid_size): for j in ...", from   *)
(* the n-th cell of the lattice on (n = i * grid_size + j)                 *)
RECURSIVE GridLoop(_, _, _)
GridLoop(n, g, radius) ==
    IF n = g * g THEN <<>>
    ELSE LET i == n \div g
             j == n % g
         IN  (IF CellWithinRadius(i, j, g, radius)
              THEN <<GridPoint(i, j, g, radius)>> ELSE <<>>)
             \o GridLoop(n + 1, g, radius)

(* defined for grid_size # 0; grid_size = 0 raises ZeroDivisionError       *)
calculate_grid_points(radius, g) == GridLoop(0, g, radius)

(***************************************************************************)
(* search_grid: SEARCHING                                                  *)
(***************************************************************************)
(* round(x, 2): to the nearest multiple of 10 units, ties to even          *)
Round2(x) ==
    LET q == x \div 10
        r == x % 10
    IN  IF r < 5 THEN 10 * q
        ELSE IF r > 5 THEN 10 * (q + 1)
        ELSE IF q % 2 = 0 THEN 10 * q ELSE 10 * (q + 1)

(* the value of place.emails while the record has no key 'emails'          *)
NoEmailsKey == <<None>>

(* a parsed place as _parse_places builds it; pos stands for (lat, lng).   *)
(* The keys 'emails' and 'has_email' do not exist yet.                     *)
ParsedPlace(place_id, pos) ==
    [place_id |-> place_id, pos |-> pos, distance_from_center |-> -1,
     search_keyword |-> None, website |-> None, phone |-> None,
     emails |-> NoEmailsKey, has_email |-> "absent"]

calculate_distance(pos) == IF pos < 0 THEN -pos ELSE pos

(* mutant: the seen-set test of line 105 never skips *)
AlreadySeenNever(place_id, seen) == FALSE

AlreadySeen(place_id, seen) == place_id \in seen

(* mutant: the radius test of line 114 accepts every result *)
WithinRadiusNoCheck(distance_from_center, radius) == TRUE

WithinRadius(distance_from_center, radius) == distance_from_center <= radius

Tagged(result, keyword) ==
    [result EXCEPT !.distance_from_center = Round2(calculate_distance(result.pos)),
                   !.search_keyword = keyword]

(* mutant: a place seen again is tagged with the keyword of the later pass *)
FilterResultRetag(result, keyword, results, seen, radius) ==
    IF result.place_id \in seen
    THEN [all |-> [i \in 1..Len(results) |->
                     IF results[i].place_id = result.place_id
                     THEN [results[i] EXCEPT !.search_keyword = keyword]
                     ELSE results[i]],
          seen |-> seen]
    ELSE IF calculate_distance(result.pos) <= radius
         THEN [all |-> Append(results, Tagged(result, keyword)),
               seen |-> seen \cup {result.place_id}]
         ELSE [all |-> results, seen |-> seen]

(* one iteration of "for result in results"                                *)
FilterResult(result, keyword, results, seen, radius) ==
    IF AlreadySeen(result.place_id, seen) THEN [all |-> results, seen |-> seen]
    ELSE IF WithinRadius(calculate_distance(result.pos), radius)
         THEN [all |-> Append(results, Tagged(result, keyword)),
               seen |-> seen \cup {result.place_id}]
         ELSE [all |-> results, seen |-> seen]

total_searches == Len(grid_points) * Len(keywords)

(* the k-th pass of "for grid_idx ...: for keyword_idx ..." (lines 77-79):  *)
(* the position in grid_points and in keywords of its cell and keyword     *)
CellOfPass(k) == ((k - 1) \div Len(keywords)) + 1

KeywordOfPass(k) == ((k - 1) % Len(keywords)) + 1

CurrentCell == CellOfPass(current_search)

CurrentKeyword == KeywordOfPass(current_search)

(* the lattice position of a cell as one number: it names the cell centre  *)
CellCentre(cell) == cell.i * grid_size + cell.j

(* mutant: the search is made with the radius of the whole area            *)
NearbyCallWholeArea(cell, keyword_idx) ==
    [kind |-> "nearby", num |-> radius_km, den |-> 1,
     a |-> CellCentre(cell), b |-> keyword_idx]

(* lines 93-98: nearby_search(lat = grid_lat, lng = grid_lng, radius_km =   *)
(* grid_radius, keyword = keyword) as a trace entry: num / den is the      *)
(* radius passed, a the centre passed, b the position of the keyword       *)
NearbyCall(cell, keyword_idx) ==
    [kind |-> "nearby", num |-> cell.num, den |-> cell.den,
     a |-> CellCentre(cell), b |-> keyword_idx]

(* mutant: the fraction of passes done is not scaled by the span of the stage *)
SearchProgressNoSpan(k, n) == Frac(2 * n + 100 * k, 100 * n)

(* 0.02 + (k / N) * 0.60 *)
SearchProgress(k, n) == Frac(2 * n + 60 * k, 100 * n)

(* 0.62 + (i / n) * 0.30 *)
DetailProgress(i, n) == Frac(62 * n + 30 * i, 100 * n)

(* 0.92 + (i / n) * 0.08 *)
EmailProgress(i, n) == Frac(92 * n + 8 * i, 100 * n)

PlanningFraction == Frac(2, 100)

DetailStartFraction == Frac(62, 100)

FinalFraction == Frac(1, 1)

(* mutant: the search loop is left after the first pass *)
AfterPassLeavesLoop(k) == "detail_begin"

AfterPass(k) == IF k = total_searches THEN "detail_begin" ELSE "searching"

Init ==
    /\ radius_km \in RadiusValues
    /\ keywords \in KeywordLists
    /\ grid_size \in GridSizes
    /\ extract_emails \in BOOLEAN
    /\ progress_callback \in BOOLEAN
    /\ pc = "start"
    /\ grid_points = <<>>
    /\ current_search = 0
    /\ all_results = <<>>
    /\ seen_place_ids = {}
    /\ idx = 0
    /\ trace = <<>>
    /\ err = None
    /\ accepted = <<>>
    /\ firstKeyword = [p \in PlaceIds |-> None]
    /\ lastNearby = "none"
    /\ rediscovered = FALSE
    /\ ExtractorIdle

(* an exception leaves the try block for the except clause of line 207:    *)
(* the locals of the body are not used again                               *)
Raise(e) ==
    /\ err' = e
    /\ pc' = "handler"
    /\ grid_points' = <<>>
    /\ current_search' = 0
    /\ all_results' = <<>>
    /\ seen_place_ids' = {}
    /\ idx' = 0
    /\ accepted' = <<>>
    /\ firstKeyword' = [p \in PlaceIds |-> None]
    /\ lastNearby' = "none"
    /\ rediscovered' = FALSE

(* lines 59-75: the 0.02 event, the planner call, the loop set-up          *)
Plan ==
    /\ pc = "start"
    /\ trace' = Append(Emit(trace, PlanningFraction), Call("plan", 0, 0))
    /\ IF grid_size = 0
       THEN Raise("ZeroDivisionError")
       ELSE /\ grid_points' = calculate_grid_points(radius_km, grid_size)
            /\ pc' = IF Len(grid_points') * Len(keywords) = 0
                     THEN "detail_begin" ELSE "searching"
            /\ UNCHANGED <<err, current_search, all_results, seen_place_ids,
                           idx, accepted, firstKeyword, lastNearby, rediscovered>>
    /\ UNCHANGED <<args, extractor>>

(* mutant: the exception of nearby_search is not caught in the pass and    *)
(* reaches the except clause of line 207                                   *)
NearbyRaisesPropagates ==
    /\ lastNearby' = "raised"
    /\ pc' = "handler"
    /\ err' = "RequestError"
    /\ grid_points' = <<>>
    /\ all_results' = <<>>
    /\ seen_place_ids' = {}
    /\ idx' = 0
    /\ accepted' = <<>>
    /\ firstKeyword' = [p \in PlaceIds |-> None]
    /\ rediscovered' = FALSE

(* lines 122-127: nearby_search raised; the exception is caught, nothing   *)
(* is added and the loop goes on with the next pair                        *)
NearbyRaises ==
    /\ lastNearby' = "raised"
    /\ pc' = AfterPass(current_search')
    /\ UNCHANGED <<grid_points, all_results, seen_place_ids, idx, err, accepted,
                   firstKeyword, rediscovered>>

(* lines 93-101: nearby_search returned a list *)
NearbyReturns ==
    /\ lastNearby' = "returned"
    /\ pc' = "filtering"
    /\ UNCHANGED <<grid_points, all_results, seen_place_ids, idx, err, accepted,
                   firstKeyword, rediscovered>>

(* lines 79-98: one (cell, keyword) pass up to the end of the call of      *)
(* nearby_search                                                           *)
SearchCall ==
    /\ pc = "searching"
    /\ current_search' = current_search + 1
    /\ trace' = Append(Emit(trace, SearchProgress(current_search', total_searches)),
                       NearbyCall(grid_points[CellOfPass(current_search')],
                                  KeywordOfPass(current_search')))
    /\ (NearbyRaises \/ NearbyReturns)
    /\ UNCHANGED <<args, extractor>>

(* lines 101-118: one iteration over the response of the current pass; the *)
(* response is any finite list of parsed places                            *)
FilterStep ==
    /\ pc = "filtering"
    /\ \E place_id \in PlaceIds, pos \in PlacePositions :
         LET keyword == keywords[CurrentKeyword]
             out == FilterResult(ParsedPlace(place_id, pos), keyword,
                                 all_results, seen_place_ids, radius_km)
         IN  /\ all_results' = out.all
             /\ seen_place_ids' = out.seen
             /\ accepted' = IF Len(out.all) > Len(all_results)
                            THEN Append(accepted, place_id) ELSE accepted
             /\ firstKeyword' =
                  IF firstKeyword[place_id] = None /\ calculate_distance(pos) <= radius_km
                  THEN [firstKeyword EXCEPT ![place_id] = keyword]
                  ELSE firstKeyword
             /\ rediscovered' =
                  (rediscovered \/ (place_id \in seen_place_ids
                                     /\ firstKeyword[place_id] # keyword))
    /\ UNCHANGED <<args, extractor, pc, grid_points, current_search, idx, trace, err, lastNearby>>

(* mutant: the loop over the response is never left *)
EndResponseStays ==
    /\ pc = "filtering"
    /\ rediscovered' = FALSE
    /\ UNCHANGED <<args, extractor, pc, grid_points, current_search, all_results, seen_place_ids,
                   idx, trace, err, accepted, firstKeyword, lastNearby>>

(* lines 120-127: the response is exhausted *)
EndResponse ==
    /\ pc = "filtering"
    /\ pc' = AfterPass(current_search)
    /\ rediscovered' = FALSE
    /\ UNCHANGED <<args, extractor, grid_points, current_search, all_results, seen_place_ids,
                   idx, trace, err, accepted, firstKeyword, lastNearby>>

(***************************************************************************)
(* search_grid: ENRICHING, and PlacesAPIClient.enrich_places_with_details  *)
(***************************************************************************)
(* what get_place_details returns: ok = FALSE stands for None (a request   *)
(* error, a status other than OK, or any exception, all caught there)      *)
NoDetails == [ok |-> FALSE, website |-> None, phone |-> None]

DetailResponses ==
    {NoDetails,
     [ok |-> TRUE, website |-> None, phone |-> "010-1234"],
     [ok |-> TRUE, website |-> "site.example", phone |-> "010-1234"]}

(* places_api.py lines 215-225: the record appended for one place         *)
EnrichPlace(place, details) ==
    IF details.ok
    THEN [place EXCEPT !.website = details.website, !.phone = details.phone]
    ELSE place

(* mutant: a place whose lookup failed is not appended *)
RECURSIVE EnrichLoopDropsFailed(_, _, _)
EnrichLoopDropsFailed(places, responses, i) ==
    IF i > Len(places) THEN [places |-> <<>>, calls |-> <<>>]
    ELSE LET rest == EnrichLoopDropsFailed(places, responses, i + 1)
         IN  [places |-> (IF responses[i].ok
                          THEN <<EnrichPlace(places[i], responses[i])>> ELSE <<>>)
                         \o rest.places,
              calls |-> <<Call("details", places[i].place_id, 0)>> \o rest.calls]

(* places_api.py lines 207-234: the loop from place i on; responses[i] is  *)
(* what get_place_details answers for places[i].  Gives the list returned  *)
(* and the lookups made, in order.                                         *)
RECURSIVE EnrichLoop(_, _, _)
EnrichLoop(places, responses, i) ==
    IF i > Len(places) THEN [places |-> <<>>, calls |-> <<>>]
    ELSE LET rest == EnrichLoop(places, responses, i + 1)
         IN  [places |-> <<EnrichPlace(places[i], responses[i])>> \o rest.places,
              calls |-> <<Call("details", places[i].place_id, 0)>> \o rest.calls]

enrich_places_with_details(places, responses) == EnrichLoop(places, responses, 1)

(* the events of lines 139-146 for idx < k                                 *)
DetailEvents(k, n) == [i \in 1..k |-> Progress(DetailProgress(i - 1, n))]

(* indices of the records with a truthy website, in list order (line 159)  *)
RECURSIVE WebsiteIndices(_, _)
WebsiteIndices(places, i) ==
    IF i > Len(places) THEN <<>>
    ELSE (IF places[i].website # None THEN <<i>> ELSE <<>>)
         \o WebsiteIndices(places, i + 1)

places_with_websites(places) == WebsiteIndices(places, 1)

(* mutant: each details lookup is made right after the event of its record *)
EnrichInterleaved ==
    /\ pc = "detail_begin"
    /\ \E responses \in [1..Len(all_results) -> DetailResponses] :
         LET out == enrich_places_with_details(all_results, responses)
             n == Len(all_results)
         IN  /\ all_results' = out.places
             /\ trace' = Emit(trace, DetailStartFraction)
                           \o (IF progress_callback
                               THEN [k \in 1..(2 * n) |->
                                       IF k % 2 = 1
                                       THEN Progress(DetailProgress((k - 1) \div 2, n))
                                       ELSE out.calls[k \div 2]]
                               ELSE out.calls)
    /\ idx' = 0
    /\ lastNearby' = "none"
    /\ pc' = IF extract_emails /\ places_with_websites(all_results') # <<>>
             THEN "extracting" ELSE "finalize"
    /\ UNCHANGED <<args, extractor, grid_points, current_search, seen_place_ids,
                   err, accepted, firstKeyword, rediscovered>>

(* lines 129-161: the 0.62 event, the progress loop, the enrichment call   *)
(* and the choice of the next stage                                        *)
Enrich ==
    /\ pc = "detail_begin"
    /\ \E responses \in [1..Len(all_results) -> DetailResponses] :
         LET out == enrich_places_with_details(all_results, responses)
         IN  /\ all_results' = out.places
             /\ trace' = Emit(trace, DetailStartFraction)
                           \o (IF progress_callback
                               THEN DetailEvents(Len(all_results), Len(all_results))
                               ELSE <<>>)
                           \o out.calls
    /\ idx' = 0
    /\ lastNearby' = "none"
    /\ pc' = IF extract_emails /\ places_with_websites(all_results') # <<>>
             THEN "extracting" ELSE "finalize"
    /\ UNCHANGED <<args, extractor, grid_points, current_search, seen_place_ids,
                   err, accepted, firstKeyword, rediscovered>>

(***************************************************************************)
(* search_grid: EXTRACTING                                                 *)
(***************************************************************************)
(* what extract_emails_from_website does for one site: a list, or raise    *)
ExtractOutcomes ==
    {[raised |-> TRUE, emails |-> <<>>],
     [raised |-> FALSE, emails |-> <<>>],
     [raised |-> FALSE, emails |-> <<"info@site.example">>]}

(* lines 174-188 *)
WithEmails(place, outcome) ==
    IF outcome.raised
    THEN [place EXCEPT !.emails = <<>>, !.has_email = "False"]
    ELSE [place EXCEPT !.emails = outcome.emails,
                       !.has_email = IF Len(outcome.emails) > 0 THEN "True" ELSE "False"]

(* lines 164-188: one iteration over places_with_websites                  *)
ExtractOne ==
    /\ pc = "extracting"
    /\ LET sites == places_with_websites(all_results)
           i == sites[idx + 1]
       IN  /\ \E outcome \in ExtractOutcomes :
                /\ trace' = Append(Emit(trace, EmailProgress(idx, Len(sites))),
                                   Call("extract", all_results[i].place_id,
                                        IF outcome.raised THEN 1 ELSE 0))
                /\ all_results' = [all_results EXCEPT ![i] = WithEmails(@, outcome)]
           /\ idx' = idx + 1
           /\ pc' = IF idx' = Len(sites) THEN "finalize" ELSE "extracting"
    /\ UNCHANGED <<args, extractor, grid_points, current_search, seen_place_ids,
                   err, accepted, firstKeyword, lastNearby, rediscovered>>

(***************************************************************************)
(* search_grid: finalization and the except clause                         *)
(***************************************************************************)
(* mutant: the records that had no extraction keep no email keys           *)
EnsureEmailFieldsSkipped(places) == places

(* lines 191-195 *)
EnsureEmailFields(places) ==
    [i \in 1..Len(places) |->
        [places[i] EXCEPT
            !.emails = IF @ = NoEmailsKey THEN <<>> ELSE @,
            !.has_email = IF @ = "absent" THEN "False" ELSE @]]

(* mutant: records of equal distance come out in reverse order             *)
RankOfUnstable(s, i) ==
    Cardinality({j \in 1..Len(s) :
        \/ s[j].distance_from_center < s[i].distance_from_center
        \/ (s[j].distance_from_center = s[i].distance_from_center /\ j >= i)})

(* the position record s[i] takes in list.sort(key = distance_from_center): *)
(* after the records of smaller key and, the sort being stable, after the  *)
(* records of equal key that stand before it                               *)
RankOf(s, i) ==
    Cardinality({j \in 1..Len(s) :
        \/ s[j].distance_from_center < s[i].distance_from_center
        \/ (s[j].distance_from_center = s[i].distance_from_center /\ j <= i)})

(* line 198: all_results.sort(key = lambda x: x.get('distance_from_center')) *)
SortByDistance(s) ==
    [r \in 1..Len(s) |-> s[CHOOSE i \in 1..Len(s) : RankOf(s, i) = r]]

(* lines 190-205 *)
Finalize ==
    /\ pc = "finalize"
    /\ all_results' = SortByDistance(IF extract_emails
                                     THEN EnsureEmailFields(all_results)
                                     ELSE all_results)
    /\ trace' = Emit(trace, FinalFraction)
    /\ pc' = "returned"
    /\ UNCHANGED <<args, extractor, grid_points, current_search, seen_place_ids, idx,
                   err, accepted, firstKeyword, lastNearby, rediscovered>>

(* the callback raises in one of the calls of lines 61, 84, 135, 143, 168, *)
(* 202: none of them is inside an inner try, so line 207 catches it.       *)
(* RaisingCalls is the set of event sequences that can end in such a call  *)
(* at the current position.                                                *)
RaisingCalls ==
    CASE pc = "start" -> {<<Progress(PlanningFraction)>>}
      [] pc = "searching" ->
           {<<Progress(SearchProgress(current_search + 1, total_searches))>>}
      [] pc = "detail_begin" ->
           {<<Progress(DetailStartFraction)>> \o DetailEvents(k, Len(all_results)) :
               k \in 0..Len(all_results)}
      [] pc = "extracting" ->
           {<<Progress(EmailProgress(idx, Len(places_with_websites(all_results))))>>}
      [] pc = "finalize" -> {<<Progress(FinalFraction)>>}
      [] OTHER -> {}

CallbackRaises ==
    /\ progress_callback
    /\ \E calls \in RaisingCalls : trace' = trace \o calls
    /\ Raise("CallbackError")
    /\ UNCHANGED <<args, extractor>>

(* mutant: the except clause re-raises without the final event *)
HandlerSilent ==
    /\ pc = "handler"
    /\ pc' = "raised"
    /\ UNCHANGED <<args, extractor, grid_points, current_search, all_results, seen_place_ids,
                   idx, trace, err, accepted, firstKeyword, lastNearby, rediscovered>>

(* lines 207-210: the except clause; its call of the callback (line 209)   *)
(* returns, then e is raised again                                         *)
Handler ==
    /\ pc = "handler"
    /\ trace' = Emit(trace, FinalFraction)
    /\ pc' = "raised"
    /\ UNCHANGED <<args, extractor, grid_points, current_search, all_results, seen_place_ids,
                   idx, err, accepted, firstKeyword, lastNearby, rediscovered>>

Next ==
    \/ Plan
    \/ SearchCall
    \/ FilterStep
    \/ EndResponse
    \/ Enrich
    \/ ExtractOne
    \/ Finalize
    \/ CallbackRaises
    \/ Handler

Spec == Init /\ [][Next]_vars

(***************************************************************************)
(* Properties                                                              *)
(***************************************************************************)
Returned == pc = "returned"

Ids(places) == {places[i].place_id : i \in 1..Len(places)}

(* C1: no two records of all_results, and so of the list search_grid       *)
(* returns, have the same place id, whatever the passes returned.          *)
C1_NoDuplicateIds ==
    \A i, j \in 1..Len(all_results) :
        i # j => all_results[i].place_id # all_results[j].place_id

C1_Witness ==
    /\ pc = "filtering"
    /\ rediscovered
    /\ CurrentCell >= 2
    /\ Len(all_results) >= 2

(* C2 as claimed: every returned record's stored (rounded) distance is at  *)
(* most radius_km.                                                         *)
C2_StoredDistanceWithinRadius ==
    Returned =>
        \A i \in 1..Len(all_results) :
            all_results[i].distance_from_center <= radius_km

(* C2 as amended: every returned record lies at a distance of at most      *)
(* radius_km, and the distance it stores is that distance rounded to 2     *)
(* decimals, so it is at most radius_km rounded to 2 decimals.             *)
C2_RoundedDistanceWithinRoundedRadius ==
    Returned =>
        \A i \in 1..Len(all_results) :
            /\ calculate_distance(all_results[i].pos) <= radius_km
            /\ all_results[i].distance_from_center
                 = Round2(calculate_distance(all_results[i].pos))
            /\ all_results[i].distance_from_center <= Round2(radius_km)

C2_Witness ==
    /\ Returned
    /\ \E i \in 1..Len(all_results) :
         /\ all_results[i].distance_from_center > radius_km
         /\ calculate_distance(all_results[i].pos) <= radius_km

AcceptedAt(place_id) == CHOOSE k \in 1..Len(accepted) : accepted[k] = place_id

(* C3: the returned list holds the accepted records in ascending order of  *)
(* stored distance, records of equal distance in the order of acceptance.  *)
C3_SortedStable ==
    Returned =>
        /\ Len(all_results) = Len(accepted)
        /\ Ids(all_results) = {accepted[k] : k \in 1..Len(accepted)}
        /\ \A i, j \in 1..Len(all_results) :
             i < j =>
               /\ all_results[i].distance_from_center
                    <= all_results[j].distance_from_center
               /\ all_results[i].distance_from_center
                    = all_results[j].distance_from_center
                  => AcceptedAt(all_results[i].place_id)
                       < AcceptedAt(all_results[j].place_id)

C3_Witness ==
    /\ Returned
    /\ \E i, j \in 1..Len(all_results) :
         /\ i < j
         /\ all_results[i].distance_from_center = all_results[j].distance_from_center
         /\ all_results[i].search_keyword # all_results[j].search_keyword

(* C4: a place some pass returned within the radius is in the list, and at *)
(* the end in the returned list, exactly once, tagged with the keyword of  *)
(* the earliest such pass.                                                 *)
C4_FirstKeywordKept ==
    pc \in {"searching", "filtering", "returned"} =>
        \A p \in PlaceIds :
            firstKeyword[p] # None =>
                /\ Cardinality({i \in 1..Len(all_results) :
                                   all_results[i].place_id = p}) = 1
                /\ \A i \in 1..Len(all_results) :
                     all_results[i].place_id = p
                       => all_results[i].search_keyword = firstKeyword[p]

C4_Witness ==
    /\ pc = "filtering"
    /\ rediscovered
    /\ CurrentKeyword = 2
    /\ \E i \in 1..Len(all_results) : all_results[i].search_keyword = keywords[1]

InUnitInterval(e) == 0 <= e.num /\ e.num <= e.den

(* C5: the fractions passed to the callback in one invocation are all in   *)
(* [0, 1] and never decrease, on the success path and on the error path.   *)
C5_ProgressMonotone ==
    \A i \in 1..Len(Events) :
        /\ InUnitInterval(Events[i])
        /\ i < Len(Events) => FLeq(Events[i], Events[i + 1])

C5_Witness ==
    /\ pc = "raised"
    /\ err = "CallbackError"
    /\ \E i \in 1..Len(trace) : trace[i].kind = "extract"
    /\ Len(Events) >= 6

InvalidCriteria ==
    radius_km <= 0 \/ keywords = <<>> \/ grid_size < 2 \/ grid_size > 6

HasFraction(i, f) == i \in 1..Len(Events) /\ FEq(Events[i], f)

ExtractStartFraction == Frac(92, 100)

(* C6 as claimed, for valid criteria: a completed run with a callback      *)
(* emits 0.02 first, then 0.62, then 0.92 whenever extract_emails is set,  *)
(* and 1.0 last.                                                           *)
C6_StageBoundaryEvents ==
    (Returned /\ progress_callback /\ ~InvalidCriteria) =>
        \E i, j, k \in 1..Len(Events) :
            /\ i = 1 /\ HasFraction(i, PlanningFraction)
            /\ i < j /\ HasFraction(j, DetailStartFraction)
            /\ j < k /\ k = Len(Events) /\ HasFraction(k, FinalFraction)
            /\ extract_emails =>
                 \E m \in 1..Len(Events) :
                     j < m /\ m < k /\ HasFraction(m, ExtractStartFraction)

ExternalCalls == {i \in 1..Len(trace) : trace[i].kind \in {"nearby", "details", "extract"}}

(* C8 as claimed: a search with invalid criteria never returns a list and  *)
(* makes no nearby_search, details or extraction call.                     *)
C8_InvalidCriteriaRejected ==
    InvalidCriteria => (pc # "returned" /\ ExternalCalls = {})

(* C9: when nearby_search raises in a pass, nothing is added or lost, no   *)
(* error is propagated and the loop goes on with the next pair (or to      *)
(* enrichment after the last pair); the only errors that ever reach the    *)
(* caller are those of planning and of the callback.                       *)
C9_NearbyErrorCaught ==
    /\ [][(pc = "searching" /\ lastNearby' = "raised") =>
            /\ all_results' = all_results
            /\ seen_place_ids' = seen_place_ids
            /\ err' = None
            /\ current_search' = current_search + 1
            /\ pc' = IF current_search' = total_searches
                     THEN "detail_begin" ELSE "searching"]_vars
    /\ [](pc \in {"handler", "raised"} => err \in {"ZeroDivisionError", "CallbackError"})

C9_Witness ==
    /\ pc = "searching"
    /\ lastNearby = "raised"
    /\ Len(all_results) >= 1

ExtractCalls(place_id) ==
    {m \in 1..Len(trace) : trace[m].kind = "extract" /\ trace[m].a = place_id}

(* C11: the extractor is called only when extract_emails is set, and then  *)
(* exactly once for each record with a website; in the returned list a     *)
(* record without a website has an empty emails list, and so has a record  *)
(* whose extraction raised, while every other record with a website still  *)
(* had its extraction.                                                     *)
C11_ExtractionPerWebsite ==
    /\ ~extract_emails => \A m \in 1..Len(trace) : trace[m].kind # "extract"
    /\ (Returned /\ extract_emails) =>
          \A i \in 1..Len(all_results) :
              LET place == all_results[i]
                  calls == ExtractCalls(place.place_id)
              IN  /\ place.website # None => Cardinality(calls) = 1
                  /\ place.website = None => (calls = {} /\ place.emails = <<>>)
                  /\ \A m \in calls :
                       trace[m].b = 1 =>
                           (place.emails = <<>> /\ place.has_email = "False")

C11_Witness ==
    /\ Returned
    /\ extract_emails
    /\ \E i, j \in 1..Len(all_results), m, n \in 1..Len(trace) :
         /\ m < n
         /\ trace[m] = Call("extract", all_results[i].place_id, 1)
         /\ trace[n] = Call("extract", all_results[j].place_id, 0)
         /\ all_results[i].emails = <<>>
         /\ all_results[j].emails # <<>>

(***************************************************************************)
(* The planner taken alone: search_grid up to the end of step 1, for every *)
(* grid size and radius of PlannerGridSizes and PlannerRadii               *)
(***************************************************************************)
InitGrid ==
    /\ radius_km \in PlannerRadii
    /\ keywords \in KeywordLists
    /\ grid_size \in PlannerGridSizes
    /\ extract_emails \in BOOLEAN
    /\ progress_callback \in BOOLEAN
    /\ pc = "start"
    /\ grid_points = <<>>
    /\ current_search = 0
    /\ all_results = <<>>
    /\ seen_place_ids = {}
    /\ idx = 0
    /\ trace = <<>>
    /\ err = None
    /\ accepted = <<>>
    /\ firstKeyword = [p \in PlaceIds |-> None]
    /\ lastNearby = "none"
    /\ rediscovered = FALSE
    /\ ExtractorIdle

NextGrid == Plan

SpecGrid == InitGrid /\ [][NextGrid]_vars

Planned == pc \in {"searching", "detail_begin"}

ValidPlannerArguments == radius_km > 0 /\ grid_size >= 2 /\ grid_size <= 6

(* C15: for a positive radius and a grid size in [2, 6] the planner        *)
(* returns at least one and at most grid_size * grid_size cells, each with *)
(* its centre within radius_km of the centre and with the radius           *)
(* radius_km / grid_size.                                                  *)
C15_PlannerCells ==
    (Planned /\ ValidPlannerArguments) =>
        /\ Len(grid_points) >= 1
        /\ Len(grid_points) <= grid_size * grid_size
        /\ \A n \in 1..Len(grid_points) :
             LET cell == grid_points[n]
             IN  /\ cell.i \in 0..(grid_size - 1)
                 /\ cell.j \in 0..(grid_size - 1)
                 /\ (CellOffset(cell.i, grid_size) * CellOffset(cell.i, grid_size)
                       + CellOffset(cell.j, grid_size) * CellOffset(cell.j, grid_size))
                      * HaversineDegreeKm * HaversineDegreeKm
                    <= grid_size * grid_size * LatDegreeKm * LatDegreeKm
                 /\ cell.num * grid_size = radius_km * cell.den
                 /\ cell.den # 0

C15_Witness ==
    /\ Planned
    /\ radius_km = 5000
    /\ grid_size = 4
    /\ Len(grid_points) = 12

(***************************************************************************)
(* Order of the external calls of search_grid                              *)
(***************************************************************************)
IsNearby(e) == e.kind = "nearby"

NearbyCalls == SelectSeq(trace, IsNearby)

InBody == pc \notin {"start", "handler", "raised"}

AfterSearching == pc \in {"detail_begin", "extracting", "finalize", "returned"}

(* C18: the nearby_search calls made so far are one per pass begun, in     *)
(* cell-major order (cells in the planner's order, keywords in input order *)
(* within a cell), each with the centre of its cell and the radius         *)
(* radius_km / grid_size; once SEARCHING is over every (cell, keyword)     *)
(* pair has had exactly one call, also when calls raised.                  *)
C18_OneCallPerPairInOrder ==
    InBody =>
        LET calls == NearbyCalls
        IN  /\ Len(calls) = current_search
            /\ AfterSearching => current_search = Len(grid_points) * Len(keywords)
            /\ \A k \in 1..Len(calls) :
                 /\ \E c \in 1..Len(grid_points) :
                      calls[k].a = CellCentre(grid_points[c])
                 /\ calls[k].b \in 1..Len(keywords)
                 /\ calls[k].den # 0
                 /\ calls[k].num * grid_size = radius_km * calls[k].den
                 /\ k < Len(calls) =>
                      \/ /\ calls[k].a = calls[k + 1].a
                         /\ calls[k].b + 1 = calls[k + 1].b
                      \/ /\ calls[k].a < calls[k + 1].a
                         /\ calls[k].b = Len(keywords)
                         /\ calls[k + 1].b = 1
            /\ AfterSearching =>
                 \A c \in 1..Len(grid_points), w \in 1..Len(keywords) :
                     Cardinality({k \in 1..Len(calls) :
                                     /\ calls[k].a = CellCentre(grid_points[c])
                                     /\ calls[k].b = w}) = 1

C18_Witness ==
    /\ pc = "detail_begin"
    /\ lastNearby = "raised"
    /\ Len(all_results) >= 1
    /\ Len(NearbyCalls) = 8
    /\ NearbyCalls[3].a # NearbyCalls[2].a
    /\ NearbyCalls[2].b = 2

StageOf(e) ==
    CASE e.kind = "plan" -> 1
      [] e.kind = "nearby" -> 2
      [] e.kind = "details" -> 3
      [] e.kind = "extract" -> 4
      [] OTHER -> 0

IsCall(e) == StageOf(e) > 0

CallsOfKind(kind) == {m \in 1..Len(trace) : trace[m].kind = kind}

(* C19: the external calls occur in the order planner, nearby_search,      *)
(* details, extraction: the planner is called once and before any search,  *)
(* a details lookup is made only after the search call of every pair, an   *)
(* extraction only after the details lookup of every record, and the       *)
(* terminal event 1.0 is the last entry of a completed run.                *)
C19_StageOrder ==
    LET calls == SelectSeq(trace, IsCall)
        count(kind) == Cardinality({m \in 1..Len(calls) : calls[m].kind = kind})
    IN  /\ calls # <<>> => calls[1].kind = "plan"
        /\ \A n \in 2..Len(calls) :
             /\ calls[n].kind # "plan"
             /\ StageOf(calls[n - 1]) <= StageOf(calls[n])
        /\ InBody =>
             /\ count("details") > 0 =>
                    count("nearby") = Len(grid_points) * Len(keywords)
             /\ count("extract") > 0 => count("details") = Len(all_results)
             /\ Returned =>
                    /\ count("nearby") = Len(grid_points) * Len(keywords)
                    /\ count("details") = Len(all_results)
                    /\ progress_callback =>
                         /\ trace[Len(trace)] = Progress(FinalFraction)
                         /\ \A m \in 1..(Len(trace) - 1) :
                              IsProgress(trace[m]) => ~FEq(trace[m], FinalFraction)

C19_Witness ==
    /\ Returned
    /\ progress_callback
    /\ Cardinality(CallsOfKind("nearby")) >= 2
    /\ Cardinality(CallsOfKind("details")) = 2
    /\ Cardinality(CallsOfKind("extract")) = 2

NearbyCallsBefore(m) == {n \in 1..(m - 1) : trace[n].kind = "nearby"}

(* C20 as claimed, for valid criteria: an event with the fraction          *)
(* 0.02 + 0.60 * k / N is emitted only when k nearby_search calls have     *)
(* been made and ended.                                                    *)
C20_FractionTracksCompletedCalls ==
    (InBody /\ progress_callback /\ ~InvalidCriteria) =>
        \A m \in 1..Len(trace), k \in 1..total_searches :
            (IsProgress(trace[m]) /\ FEq(trace[m], SearchProgress(k, total_searches)))
               => Cardinality(NearbyCallsBefore(m)) >= k

(***************************************************************************)
(* Termination.  search_grid is sequential code: a step that can be taken  *)
(* is taken once the call it waits for has returned or failed, and the     *)
(* list a nearby_search call returned is finite, so its loop ends.  The    *)
(* callback is not required to raise.  At every position exactly one of    *)
(* the steps of Proceed is possible.                                       *)
(***************************************************************************)
Proceed ==
    \/ Plan
    \/ SearchCall
    \/ EndResponse
    \/ Enrich
    \/ ExtractOne
    \/ Finalize
    \/ Handler

Fairness == WF_vars(Proceed)

(* the invocations followed to their end: grids of one and of four cells  *)
(* (up to 8 passes), and the grid size 0 that makes the planner raise      *)
LiveGridSizes == {0, 1, 2}

InitLive ==
    /\ radius_km \in RadiusValues
    /\ keywords \in KeywordLists
    /\ grid_size \in LiveGridSizes
    /\ extract_emails \in BOOLEAN
    /\ progress_callback \in BOOLEAN
    /\ pc = "start"
    /\ grid_points = <<>>
    /\ current_search = 0
    /\ all_results = <<>>
    /\ seen_place_ids = {}
    /\ idx = 0
    /\ trace = <<>>
    /\ err = None
    /\ accepted = <<>>
    /\ firstKeyword = [p \in PlaceIds |-> None]
    /\ lastNearby = "none"
    /\ rediscovered = FALSE
    /\ ExtractorIdle

SpecLive == InitLive /\ [][Next]_vars /\ Fairness

Ended == pc \in {"returned", "raised"}

(* C17: every invocation eventually ends, either by returning its list     *)
(* (and then no error was raised) or by raising an error (and then no list *)
(* is returned); once ended one way it never ends the other way.           *)
C17_EndsExactlyOneWay ==
    /\ <>Ended
    /\ [](pc = "returned" => err = None)
    /\ [](pc = "raised" => err # None)
    /\ [][Ended => pc' = pc]_vars

C17_Witness ==
    /\ pc = "returned"
    /\ extract_emails
    /\ Len(all_results) = 2
    /\ Cardinality(CallsOfKind("nearby")) = 8
    /\ \E m \in 1..Len(trace) : trace[m].kind = "extract" /\ trace[m].b = 1

(***************************************************************************)
(* EmailExtractor (src/backend/email_extractor.py): strings                *)
(***************************************************************************)
LowerLetters == "abcdefghijklmnopqrstuvwxyz"

UpperLetters == "ABCDEFGHIJKLMNOPQRSTUVWXYZ"

DigitChars == "0123456789"

CharAt(s, i) == SubSeq(s, i, i)

CharsOf(s) == {CharAt(s, i) : i \in 1..Len(s)}

Letters == CharsOf(LowerLetters) \cup CharsOf(UpperLetters)

Digits == CharsOf(DigitChars)

IsLetter(c) == c \in Letters

IsDigit(c) == c \in Digits

(* \s of the regular expressions *)
IsSpace(c) == c \in {" ", "\t", "\n", "\r"}

(* str.lower() *)
LowerOf ==
    [c \in CharsOf(UpperLetters) |->
        CharAt(LowerLetters, CHOOSE k \in 1..Len(UpperLetters) : CharAt(UpperLetters, k) = c)]

LowerChar(c) == IF c \in DOMAIN LowerOf THEN LowerOf[c] ELSE c

RECURSIVE LowerFrom(_, _)
LowerFrom(s, i) ==
    IF i > Len(s) THEN "" ELSE LowerChar(CharAt(s, i)) \o LowerFrom(s, i + 1)

Lower(s) == LowerFrom(s, 1)

(* str.strip(): without the leading and the trailing white space *)
RECURSIVE FirstNonSpace(_, _)
FirstNonSpace(s, i) ==
    IF i > Len(s) \/ ~IsSpace(CharAt(s, i)) THEN i ELSE FirstNonSpace(s, i + 1)

RECURSIVE LastNonSpace(_, _)
LastNonSpace(s, i) ==
    IF i < 1 \/ ~IsSpace(CharAt(s, i)) THEN i ELSE LastNonSpace(s, i - 1)

Strip(s) == SubSeq(s, FirstNonSpace(s, 1), LastNonSpace(s, Len(s)))

(* "sub in s" *)
Contains(s, sub) ==
    \E i \in 1..(Len(s) - Len(sub) + 1) : SubSeq(s, i, i + Len(sub) - 1) = sub

(* re.sub(r'\s+', '', s) from position i on *)
RECURSIVE RemoveSpacesFrom(_, _)
RemoveSpacesFrom(s, i) ==
    IF i > Len(s) THEN ""
    ELSE (IF IsSpace(CharAt(s, i)) THEN "" ELSE CharAt(s, i)) \o RemoveSpacesFrom(s, i + 1)

RemoveSpaces(s) == RemoveSpacesFrom(s, 1)

(* re.sub(pattern, replacement, s, flags = re.IGNORECASE) for a pattern    *)
(* that is a literal text (given in lower case), from position i on        *)
RECURSIVE ReplaceLiteralFrom(_, _, _, _)
ReplaceLiteralFrom(s, literal, replacement, i) ==
    IF i > Len(s) THEN ""
    ELSE IF /\ i + Len(literal) - 1 <= Len(s)
            /\ Lower(SubSeq(s, i, i + Len(literal) - 1)) = literal
         THEN replacement \o ReplaceLiteralFrom(s, literal, replacement, i + Len(literal))
         ELSE CharAt(s, i) \o ReplaceLiteralFrom(s, literal, replacement, i + 1)

ReplaceLiteral(s, literal, replacement) == ReplaceLiteralFrom(s, literal, replacement, 1)

(* the number of white-space characters of s from position i on *)
RECURSIVE SpacesAt(_, _)
SpacesAt(s, i) ==
    IF i > Len(s) \/ ~IsSpace(CharAt(s, i)) THEN 0 ELSE 1 + SpacesAt(s, i + 1)

(* re.sub(r'\s+WORD\s+', replacement, s, flags = re.IGNORECASE): the word  *)
(* (given in lower case) with white space on both sides, from position i   *)
RECURSIVE ReplaceSpacedWordFrom(_, _, _, _)
ReplaceSpacedWordFrom(s, word, replacement, i) ==
    IF i > Len(s) THEN ""
    ELSE LET before == SpacesAt(s, i)
             w == i + before
             after == SpacesAt(s, w + Len(word))
         IN  IF /\ before >= 1
                /\ w + Len(word) - 1 <= Len(s)
                /\ Lower(SubSeq(s, w, w + Len(word) - 1)) = word
                /\ after >= 1
             THEN replacement
                    \o ReplaceSpacedWordFrom(s, word, replacement, w + Len(word) + after)
             ELSE CharAt(s, i) \o ReplaceSpacedWordFrom(s, word, replacement, i + 1)

ReplaceSpacedWord(s, word, replacement) == ReplaceSpacedWordFrom(s, word, replacement, 1)

MaxEmailLength == 30

LocalChars == Letters \cup Digits \cup {".", "_", "%", "+", "-"}

DomainChars == Letters \cup Digits \cup {".", "-"}

(* the class [A-Z|a-z] of the patterns: the letters and the bar *)
TldChars == Letters \cup {"|"}

LocalChar(c) == c \in LocalChars

DomainChar(c) == c \in DomainChars

TldChar(c) == c \in TldChars

(* re.match(r'^[A-Za-z0-9._%+-]+@[A-Za-z0-9.-]+\.[A-Z|a-z]{2,}$', s): the   *)
(* text up to position n matches local part, '@' at p, domain, '.' at d,   *)
(* and two or more characters of the last class                            *)
MatchesUpTo(s, n) ==
    \E p \in 2..n, d \in 3..n :
        /\ CharAt(s, p) = "@"
        /\ CharAt(s, d) = "."
        /\ p + 1 < d
        /\ d + 2 <= n
        /\ \A i \in 1..(p - 1) : LocalChar(CharAt(s, i))
        /\ \A i \in (p + 1)..(d - 1) : DomainChar(CharAt(s, i))
        /\ \A i \in (d + 1)..n : TldChar(CharAt(s, i))

(* '$' matches at the end and before a line feed that ends the text *)
MatchesEmailPattern(s) ==
    \/ MatchesUpTo(s, Len(s))
    \/ (Len(s) >= 1 /\ CharAt(s, Len(s)) = "\n" /\ MatchesUpTo(s, Len(s) - 1))

(* mutant: no limit on the length *)
is_basic_email_valid_any_length(email) ==
    /\ email # ""
    /\ Contains(email, "@")
    /\ Contains(email, ".")
    /\ MatchesEmailPattern(email)

(* _is_basic_email_valid, lines 336-347 *)
is_basic_email_valid(email) ==
    /\ email # ""
    /\ Contains(email, "@")
    /\ Contains(email, ".")
    /\ Len(email) <= MaxEmailLength
    /\ MatchesEmailPattern(email)

(* lines 311-328: the text before the validation *)
Deobfuscated(email) ==
    LET e0 == RemoveSpaces(email)
        e1 == ReplaceLiteral(e0, "[at]", "@")
        e2 == ReplaceLiteral(e1, "(at)", "@")
        e3 == ReplaceSpacedWord(e2, "at", "@")
        e4 == ReplaceLiteral(e3, "[dot]", ".")
        e5 == ReplaceLiteral(e4, "(dot)", ".")
        e6 == ReplaceSpacedWord(e5, "dot", ".")
    IN  Lower(Strip(e6))

(* mutant: the cleaned text is returned without the validation *)
clean_obfuscated_email_unchecked(email) ==
    IF email = "" THEN None
    ELSE LET cleaned == Deobfuscated(email)
         IN  cleaned

(* _clean_obfuscated_email, lines 298-334: the address, or None *)
clean_obfuscated_email(email) ==
    IF email = "" THEN None
    ELSE LET cleaned == Deobfuscated(email)
         IN  IF is_basic_email_valid(cleaned) THEN cleaned ELSE None

(***************************************************************************)
(* EmailExtractor: URLs                                                    *)
(***************************************************************************)
StartsWith(s, prefix) == Len(s) >= Len(prefix) /\ SubSeq(s, 1, Len(prefix)) = prefix

HasScheme(url) == StartsWith(url, "http://") \/ StartsWith(url, "https://")

(* lines 87-88 and 355-356 *)
WithScheme(url) == IF HasScheme(url) THEN url ELSE "https://" \o url

(* the position after the "//" of a URL that has a scheme *)
NetlocStart(url) == IF StartsWith(url, "https://") THEN 9 ELSE 8

(* the end of the host part: up to the first '/', '?' or '#' *)
RECURSIVE NetlocEnd(_, _)
NetlocEnd(url, i) ==
    IF i > Len(url) \/ CharAt(url, i) \in {"/", "?", "#"} THEN i - 1
    ELSE NetlocEnd(url, i + 1)

(* urlparse(url).netloc for a URL that has a scheme *)
Netloc(url) == SubSeq(url, NetlocStart(url), NetlocEnd(url, NetlocStart(url)))

(* mutant: any non-empty text is taken for a URL *)
is_valid_url_any_text(url) == url # ""

(* _is_valid_url, lines 349-361 *)
is_valid_url(url) == url # "" /\ Netloc(WithScheme(url)) # ""

(* _get_base_domain, lines 363-373 *)
get_base_domain(url) ==
    LET domain == Lower(Netloc(url))
    IN  IF StartsWith(domain, "www.") THEN SubSeq(domain, 5, Len(domain)) ELSE domain

(***************************************************************************)
(* EmailExtractor._filter_and_clean_emails                                 *)
(***************************************************************************)
MaxEmailsPerSite == 10

MinEmailLength == 6

(* lines 399-415 *)
invalid_patterns ==
    {"example.com", "test.com", "dummy.com", "placeholder", "noreply", "no-reply",
     "donotreply", "admin@admin", "test@test", "user@user", "email@email",
     "info@info", "contact@contact", "sample@sample", "demo@demo"}

(* email.split('@') of an address with one '@' *)
AtPosition(email) == CHOOSE p \in 1..Len(email) : CharAt(email, p) = "@"

LocalPart(email) == SubSeq(email, 1, AtPosition(email) - 1)

DomainPart(email) == SubSeq(email, AtPosition(email) + 1, Len(email))

CountChar(s, c) == Cardinality({i \in 1..Len(s) : CharAt(s, i) = c})

(* domain_part.split('.')[0] *)
FirstLabel(domain) ==
    IF Contains(domain, ".")
    THEN SubSeq(domain, 1, (CHOOSE d \in 1..Len(domain) :
                               /\ CharAt(domain, d) = "."
                               /\ \A k \in 1..(d - 1) : CharAt(domain, k) # ".") - 1)
    ELSE domain

DigitCount(s) == Cardinality({i \in 1..Len(s) : IsDigit(CharAt(s, i))})

(* mutant: a local part with 70% of digits is discarded too *)
PlausibleBelowSeventyPercent(email) ==
    /\ \A pattern \in invalid_patterns : ~Contains(email, pattern)
    /\ LocalPart(email) # FirstLabel(DomainPart(email))
    /\ Len(email) >= MinEmailLength
    /\ 10 * DigitCount(LocalPart(email)) < 7 * Len(LocalPart(email))

(* lines 417-432: the tests after the basic validity; the quotient of line *)
(* 431 is compared with 0.7 cleared of fractions                           *)
Plausible(email) ==
    /\ \A pattern \in invalid_patterns : ~Contains(email, pattern)
    /\ LocalPart(email) # FirstLabel(DomainPart(email))
    /\ Len(email) >= MinEmailLength
    /\ 10 * DigitCount(LocalPart(email)) <= 7 * Len(LocalPart(email))

(* lines 394-434: the tests one candidate (lower-cased, stripped) passes   *)
Survives(email) == is_basic_email_valid(email) /\ Plausible(email)

(* lines 391-437: the set of unique_emails *)
FilteredSet(candidates) ==
    {e \in {Lower(Strip(c)) : c \in candidates} : Survives(e)}

business_keywords == {"contact", "info", "support", "hello", "mail", "office"}

business_domains ==
    {"gmail.com", "yahoo.com", "hotmail.com", "outlook.com", "naver.com", "daum.net"}

(* lines 440-463 *)
email_priority(email, base_domain) ==
    (IF base_domain # "" /\ Contains(base_domain, DomainPart(email)) THEN 100 ELSE 0)
    + (IF \E keyword \in business_keywords : Contains(LocalPart(email), keyword)
       THEN 50 ELSE 0)
    + (IF DomainPart(email) \in business_domains THEN 30 ELSE 0)
    + (IF MaxEmailLength - Len(email) > 0 THEN MaxEmailLength - Len(email) ELSE 0)

(* mutant: the whole sorted list is returned *)
TopEmailsUnlimited(sorted) == sorted

(* line 467: unique_emails[:10] *)
TopEmails(sorted) ==
    SubSeq(sorted, 1, IF Len(sorted) < MaxEmailsPerSite THEN Len(sorted) ELSE MaxEmailsPerSite)

(***************************************************************************)
(* EmailExtractor.extract_emails_from_website                              *)
(***************************************************************************)
(* line 17: the default of max_pages *)
max_pages == 5

(* lines 49-67 *)
email_paths ==
    <<"", "/contact", "/contact-us", "/contactus", "/about", "/about-us", "/aboutus",
      "/support", "/help", "/info", "/inquiry", "/customer-service",
      "/customer-support", "/get-in-touch", "/reach-us", "/feedback", "/questions">>

(* urljoin(website_url, path) for the paths of email_paths: the empty path *)
(* gives the URL itself, a rooted path replaces the path of the URL        *)
urljoin(url, path) ==
    IF path = "" THEN url
    ELSE SubSeq(url, 1, NetlocEnd(url, NetlocStart(url))) \o path

(* website_url values given by the caller: none, one without a host, one   *)
(* without a scheme, a complete one                                        *)
Websites == {"", "https://", "site.example", "https://www.site.example/shop"}

(* What email_patterns find on a page of the site (pattern.findall, lines  *)
(* 174-175).  ContactPage has an obfuscated address, one address in two    *)
(* spellings, two denylisted ones and one of 40 characters.                *)
ContactPage ==
    {"info[at]company[dot]com", "Info[AT]Company[DOT]Com",
     "Sales@Site.Example", "sales@site.example",
     "contact@example.com", "test@test.com",
     "verylongencryptedkey123456789@domain.com"}

(* AboutPage has the two other obfuscated forms, a no-reply address, local *)
(* parts with 7 digits out of 8 and out of 10, and a local part equal to   *)
(* the first label of its domain.                                          *)
AboutPage ==
    {"hello AT domain DOT com", "support(at)site(dot)example", "noreply@site.example",
     "1234567a@site.example", "1234567abc@site.example", "acme@acme.io"}

(* StaffPage has twelve plausible addresses, three of them of the same     *)
(* priority at the end of the order.                                       *)
StaffPage ==
    {"ann@site.example", "bob@site.example", "carla@site.example",
     "dmitri@site.example", "eleonor@site.example", "federica@site.example",
     "guenther1@site.example", "hildegard2@site.example", "office@gmail.com",
     "kim@other.org", "lee@other.org", "zed@other.org"}

PageTexts == {{}, ContactPage, AboutPage, StaffPage}

(* lines 176-179: the addresses a page contributes *)
PageEmails(found_emails) ==
    {Lower(clean_obfuscated_email(e)) :
        e \in {f \in found_emails : clean_obfuscated_email(f) # None}}

(* PageEmails, tabulated *)
EmailsOfPage == [found_emails \in PageTexts |-> PageEmails(found_emails)]

InitExtract ==
    /\ radius_km = 4997
    /\ keywords = <<"cafe">>
    /\ grid_size = 1
    /\ extract_emails = TRUE
    /\ progress_callback = FALSE
    /\ pc = "start"
    /\ grid_points = <<>>
    /\ current_search = 0
    /\ all_results = <<>>
    /\ seen_place_ids = {}
    /\ idx = 0
    /\ trace = <<>>
    /\ err = None
    /\ accepted = <<>>
    /\ firstKeyword = [p \in PlaceIds |-> None]
    /\ lastNearby = "none"
    /\ rediscovered = FALSE
    /\ website_url \in Websites
    /\ pages_crawled = 0
    /\ emails = {}
    /\ unique_emails = <<>>
    /\ unsorted = {}
    /\ filtered_emails = <<>>
    /\ epc = "called"
    /\ fetched = <<>>
    /\ pages_loaded = 0
    /\ failed_at = {}
    /\ raw_found = {}

(* lines 79-90 *)
ExtractStart ==
    /\ epc = "called"
    /\ IF website_url = "" \/ ~is_valid_url(website_url)
       THEN /\ filtered_emails' = <<>>
            /\ epc' = "returned"
            /\ UNCHANGED website_url
       ELSE /\ website_url' = WithScheme(website_url)
            /\ epc' = "crawling"
            /\ UNCHANGED filtered_emails
    /\ UNCHANGED <<search, pages_crawled, emails, unique_emails, unsorted,
                   fetched, pages_loaded, failed_at, raw_found>>

(* mutant: the failure of a fetch leaves extract_emails_from_website *)
PageFailsPropagates(url) ==
    /\ fetched' = Append(fetched, url)
    /\ failed_at' = failed_at \cup {Len(fetched) + 1}
    /\ epc' = "raised"
    /\ UNCHANGED <<emails, pages_loaded, raw_found>>

(* mutant: a failed fetch discards the addresses collected so far *)
PageFailsLosesEmails(url) ==
    /\ fetched' = Append(fetched, url)
    /\ failed_at' = failed_at \cup {Len(fetched) + 1}
    /\ emails' = {}
    /\ UNCHANGED <<pages_loaded, raw_found, epc>>

(* lines 131-132 and 156-161: session.get or raise_for_status raises (a    *)
(* timeout, a connection error, a status that is not 2xx); the exception   *)
(* is caught and the page contributes the empty set                        *)
PageFails(url) ==
    /\ fetched' = Append(fetched, url)
    /\ failed_at' = failed_at \cup {Len(fetched) + 1}
    /\ UNCHANGED <<emails, pages_loaded, raw_found, epc>>

(* lines 131-154 and 161: the page is fetched and searched *)
PageLoads(url, found_emails) ==
    /\ fetched' = Append(fetched, url)
    /\ pages_loaded' = pages_loaded + 1
    /\ raw_found' = raw_found \cup found_emails
    /\ emails' = emails \cup EmailsOfPage[found_emails]
    /\ UNCHANGED <<epc, failed_at>>

(* mutant: the loop over email_paths begins at its second path *)
FetchPageSkipsRoot ==
    /\ epc = "crawling"
    /\ pages_crawled + 1 < Len(email_paths)
    /\ pages_crawled < max_pages
    /\ LET url == urljoin(website_url, email_paths[pages_crawled + 2])
       IN  \/ PageFails(url)
           \/ \E found_emails \in PageTexts : PageLoads(url, found_emails)
    /\ pages_crawled' = pages_crawled + 1
    /\ UNCHANGED <<search, website_url, unique_emails, unsorted, filtered_emails>>

(* mutant: a failed fetch does not count against the page budget *)
FetchPageFailuresFree ==
    /\ epc = "crawling"
    /\ pages_crawled < Len(email_paths)
    /\ pages_crawled < max_pages
    /\ LET url == urljoin(website_url, email_paths[pages_crawled + 1])
       IN  \/ PageFails(url) /\ pages_crawled' = pages_crawled
           \/ /\ \E found_emails \in PageTexts : PageLoads(url, found_emails)
              /\ pages_crawled' = pages_crawled + 1
    /\ UNCHANGED <<search, website_url, unique_emails, unsorted, filtered_emails>>

(* lines 93-108: one turn of the loop over email_paths *)
FetchPage ==
    /\ epc = "crawling"
    /\ pages_crawled < Len(email_paths)
    /\ pages_crawled < max_pages
    /\ LET url == urljoin(website_url, email_paths[pages_crawled + 1])
       IN  \/ PageFails(url)
           \/ \E found_emails \in PageTexts : PageLoads(url, found_emails)
    /\ pages_crawled' = pages_crawled + 1
    /\ UNCHANGED <<search, website_url, unique_emails, unsorted, filtered_emails>>

(* lines 94-95, 114 and 375-437: the loop is left and the candidates are   *)
(* filtered                                                                *)
Filter ==
    /\ epc = "crawling"
    /\ (pages_crawled >= Len(email_paths) \/ pages_crawled >= max_pages)
    /\ unsorted' = FilteredSet(emails)
    /\ unique_emails' = <<>>
    /\ epc' = "sorting"
    /\ UNCHANGED <<search, website_url, pages_crawled, emails, filtered_emails,
                   fetched, pages_loaded, failed_at, raw_found>>

(* mutant: the list is left in the iteration order of the set *)
SortStepAnyOrder ==
    /\ epc = "sorting"
    /\ \E email \in unsorted :
          /\ unique_emails' = Append(unique_emails, email)
          /\ unsorted' = unsorted \ {email}
    /\ UNCHANGED <<search, website_url, pages_crawled, emails, filtered_emails,
                   epc, fetched, pages_loaded, failed_at, raw_found>>

(* line 465: unique_emails.sort(key=email_priority, reverse=True), one     *)
(* position at a time.  The list sorted is in the iteration order of a set *)
(* of strings, which is not fixed, and the sort keeps that order between   *)
(* addresses of equal priority: any of them may come next.                 *)
SortStep ==
    /\ epc = "sorting"
    /\ \E email \in unsorted :
          /\ \A other \in unsorted :
                email_priority(other, get_base_domain(website_url))
                    <= email_priority(email, get_base_domain(website_url))
          /\ unique_emails' = Append(unique_emails, email)
          /\ unsorted' = unsorted \ {email}
    /\ UNCHANGED <<search, website_url, pages_crawled, emails, filtered_emails,
                   epc, fetched, pages_loaded, failed_at, raw_found>>

(* lines 467 and 115 *)
Return ==
    /\ epc = "sorting"
    /\ unsorted = {}
    /\ filtered_emails' = TopEmails(unique_emails)
    /\ epc' = "returned"
    /\ UNCHANGED <<search, website_url, pages_crawled, emails, unique_emails,
                   unsorted, fetched, pages_loaded, failed_at, raw_found>>

NextExtract ==
    \/ ExtractStart
    \/ FetchPage
    \/ Filter
    \/ SortStep
    \/ Return

SpecExtract == InitExtract /\ [][NextExtract]_vars

(***************************************************************************)
(* Properties of extract_emails_from_website                               *)
(***************************************************************************)
ExtractReturned == epc = "returned"

ReturnedEmails == {filtered_emails[i] : i \in 1..Len(filtered_emails)}

(* C12: every string of the list returned by extract_emails_from_website   *)
(* has at most 30 characters, exactly one '@', and none of the denylisted  *)
(* substrings.                                                             *)
C12_ReturnedAddressesValid ==
    ExtractReturned =>
        \A email \in ReturnedEmails :
            /\ Len(email) <= 30
            /\ CountChar(email, "@") = 1
            /\ \A pattern \in invalid_patterns : ~Contains(email, pattern)

(* the pages fetched held an address of more than 30 characters and a      *)
(* denylisted one, and addresses were returned                             *)
C12_Witness ==
    /\ ExtractReturned
    /\ "verylongencryptedkey123456789@domain.com" \in raw_found
    /\ "test@test.com" \in raw_found
    /\ Len(filtered_emails) >= 2

(* C13: the list returned by extract_emails_from_website holds at most 10  *)
(* addresses and no address twice, however many candidates were found.     *)
C13_AtMostTenDistinct ==
    ExtractReturned =>
        /\ Len(filtered_emails) <= 10
        /\ \A i, j \in 1..Len(filtered_emails) :
              i # j => filtered_emails[i] # filtered_emails[j]

(* more than 10 candidates pass the filter (one of them found in two       *)
(* spellings) and 10 are returned                                          *)
C13_Witness ==
    /\ ExtractReturned
    /\ Cardinality(FilteredSet(emails)) > 10
    /\ {"Sales@Site.Example", "sales@site.example"} \subseteq raw_found
    /\ Len(filtered_emails) = 10

(* the normalizer and the form it validates, on the candidates of the pages *)
Normalizer == [email \in UNION PageTexts |-> clean_obfuscated_email(email)]

NormalizedForm == [email \in UNION PageTexts |-> Deobfuscated(email)]

(* C14: the normalizer maps "info[at]company[dot]com" to                   *)
(* "info@company.com", which passes the basic validity, and returns no     *)
(* address for a candidate whose normalized form has more than 30          *)
(* characters.                                                             *)
C14_NormalizerOnFoundCandidates ==
    /\ "info[at]company[dot]com" \in raw_found =>
          /\ Normalizer["info[at]company[dot]com"] = "info@company.com"
          /\ is_basic_email_valid("info@company.com")
          /\ "info@company.com" \in emails
    /\ \A email \in raw_found :
          Len(NormalizedForm[email]) > 30 =>
              /\ Normalizer[email] = None
              /\ NormalizedForm[email] \notin emails

(* a page with the obfuscated address and with the address of 40           *)
(* characters has been searched, and the call has returned                 *)
C14_Witness ==
    /\ ExtractReturned
    /\ "info[at]company[dot]com" \in raw_found
    /\ "verylongencryptedkey123456789@domain.com" \in raw_found
    /\ "info@company.com" \in ReturnedEmails

AllFetchesFailed ==
    /\ fetched # <<>>
    /\ pages_loaded = 0

RequestedInListOrder ==
    \A i \in 1..Len(fetched) :
        /\ i <= Len(email_paths)
        /\ fetched[i] = urljoin(website_url, email_paths[i])

(* C21: the page fetches attempted for one website are for the paths of    *)
(* the fixed list, in list order from the root path on, and there are at   *)
(* most max_pages (5) of them.                                             *)
C21_FetchesFollowPathList ==
    /\ Len(fetched) <= 5
    /\ RequestedInListOrder
    /\ fetched # <<>> => fetched[1] = website_url

(* the page budget is used up on a site given with a path of its own *)
C21_Witness ==
    /\ epc = "crawling"
    /\ Len(fetched) = 5
    /\ fetched[1] = "https://www.site.example/shop"
    /\ fetched[2] = "https://www.site.example/contact"
    /\ fetched[5] = "https://www.site.example/about"

(* the addresses the pages fetched so far contribute *)
CollectedFrom(found_emails) ==
    {Normalizer[e] : e \in {f \in found_emails : Normalizer[f] # None}}

(* a step in which a request fails *)
FetchFailsStep == Len(fetched') = Len(fetched) + 1 /\ pages_loaded' = pages_loaded

(* C22: a failed fetch is caught: the crawl goes on with the next path of  *)
(* the list, and the candidate set keeps the addresses of every page       *)
(* fetched successfully, before and after the failure.                     *)
C22_FailureDoesNotAbortCrawl ==
    /\ [][FetchFailsStep => (epc' = "crawling" /\ emails' = emails)]_vars
    /\ [][(epc = "crawling" /\ Len(fetched) < 5) =>
            /\ Len(fetched') = Len(fetched) + 1
            /\ fetched'[Len(fetched')] = urljoin(website_url, email_paths[Len(fetched')])]_vars
    /\ [](emails = CollectedFrom(raw_found))

(* the first and the fifth request succeeded, the three between them       *)
(* failed, and the addresses of both pages are candidates                  *)
C22_Witness ==
    /\ ExtractReturned
    /\ Len(fetched) = 5
    /\ failed_at = {2, 3, 4}
    /\ (ContactPage \cup AboutPage) \subseteq raw_found
    /\ {"info@company.com", "support@site.example"} \subseteq emails

(***************************************************************************)
(* The normalizer on the obfuscated forms                                  *)
(***************************************************************************)
(* the obfuscated candidates of the pages and the plain addresses they     *)
(* stand for                                                               *)
ObfuscatedForms ==
    {[raw |-> "info[at]company[dot]com", plain |-> "info@company.com"],
     [raw |-> "Info[AT]Company[DOT]Com", plain |-> "info@company.com"],
     [raw |-> "support(at)site(dot)example", plain |-> "support@site.example"],
     [raw |-> "hello AT domain DOT com", plain |-> "hello@domain.com"]}

(* C23: each obfuscated form found on a page ("x[at]y[dot]z",              *)
(* "x(at)y(dot)z", "x AT y DOT z", in any letter case) is normalized to    *)
(* the lower-cased plain address "x@y.z", which becomes a candidate.       *)
C23_ObfuscatedFormsNormalize ==
    \A form \in ObfuscatedForms :
        form.raw \in raw_found =>
            /\ Normalizer[form.raw] = form.plain
            /\ form.plain \in emails

(***************************************************************************)
(* The order of the returned addresses                                     *)
(***************************************************************************)
(* the addresses that passed the filter, once the call has returned *)
Survivors == {unique_emails[i] : i \in 1..Len(unique_emails)}

(* C24: the returned addresses are in non-increasing order of score, where *)
(* score = 100 if the domain of the address is a substring of the base     *)
(* domain of the site, + 50 if the local part contains one of contact,     *)
(* info, support, hello, mail, office, + 30 if the domain is one of the    *)
(* listed public providers, + max(0, 30 - length); and no surviving        *)
(* address left out has a higher score than a returned one.                *)
C24_ReturnedInScoreOrder ==
    LET base == get_base_domain(website_url)
        score(email) ==
            (IF Contains(base, DomainPart(email)) THEN 100 ELSE 0)
            + (IF \E word \in {"contact", "info", "support", "hello", "mail", "office"} :
                     Contains(LocalPart(email), word)
               THEN 50 ELSE 0)
            + (IF DomainPart(email) \in business_domains THEN 30 ELSE 0)
            + (IF Len(email) < 30 THEN 30 - Len(email) ELSE 0)
    IN  (ExtractReturned /\ filtered_emails # <<>>) =>
            /\ \A i \in 1..(Len(filtered_emails) - 1) :
                  score(filtered_emails[i]) >= score(filtered_emails[i + 1])
            /\ \A left_out \in Survivors \ ReturnedEmails :
                  \A email \in ReturnedEmails : score(left_out) <= score(email)

(* fourteen addresses pass the filter: the one with a business keyword at  *)
(* the site's domain comes first, the one at a public provider is left out *)
C24_Witness ==
    /\ ExtractReturned
    /\ Len(filtered_emails) = 10
    /\ filtered_emails[1] = "support@site.example"
    /\ "office@gmail.com" \in Survivors \ ReturnedEmails

(***************************************************************************)
(* The plausibility filter                                                 *)
(***************************************************************************)
(* _filter_and_clean_emails has just built the list of survivors *)
JustFiltered == epc = "sorting" /\ unique_emails = <<>>

IsCorner(cell) ==
    /\ cell.i \in {0, grid_size - 1}
    /\ cell.j \in {0, grid_size - 1}

CornersReturned == {n \in 1..Len(grid_points) : IsCorner(grid_points[n])}

FailsSyntacticValidation(url) ==
    \/ url = ""
    \/ Netloc(IF HasScheme(url) THEN url ELSE "https://" \o url) = ""

(* C27: for a website URL that fails the syntactic validation, no page     *)
(* fetch is ever attempted and the call returns an empty list.             *)
C27_InvalidUrlReturnsEmpty ==
    FailsSyntacticValidation(website_url) =>
        /\ fetched = <<>>
        /\ epc \in {"called", "returned"}
        /\ ExtractReturned => filtered_emails = <<>>

(* the call made with a scheme and no host has returned *)
C27_Witness ==
    /\ ExtractReturned
    /\ website_url = "https://"
    /\ pages_crawled = 0
    /\ filtered_emails = <<>>

(***************************************************************************)
(* ENRICHING: the progress loop and the lookups                            *)
(***************************************************************************)
DetailsCalls == {m \in 1..Len(trace) : trace[m].kind = "details"}

FirstDetailsCall == CHOOSE d \in DetailsCalls : \A e \in DetailsCalls : d <= e

(* C28: every ENRICHING progress event (0.62, then one per accepted record *)
(* with fraction 0.62 + 0.30 * idx / n) is emitted before the first        *)
(* details lookup: the lookups follow one another with no progress event   *)
(* between them, and every later event has a fraction of 0.92 or more.     *)
C28_EnrichEventsBeforeLookups ==
    DetailsCalls # {} =>
        LET first == FirstDetailsCall
            count == Cardinality(DetailsCalls)
        IN  /\ DetailsCalls = first..(first + count - 1)
            /\ \A m \in (first + count)..Len(trace) :
                  IsProgress(trace[m]) => FLeq(ExtractStartFraction, trace[m])
            /\ (InBody /\ progress_callback) =>
                  /\ count = Len(all_results)
                  /\ first > count + 1
                  /\ trace[first - count - 1] = Progress(DetailStartFraction)
                  /\ \A i \in 1..count :
                        trace[first - count - 1 + i] = Progress(DetailProgress(i - 1, count))

(* two records were enriched under a callback *)
C28_Witness ==
    /\ pc \in {"extracting", "finalize"}
    /\ progress_callback
    /\ Cardinality(DetailsCalls) = 2
    /\ trace[FirstDetailsCall - 1] = Progress(DetailProgress(1, 2))

(***************************************************************************)
(* The page budget                                                         *)
(***************************************************************************)
CrawlOver == epc \in {"sorting", "returned"} /\ ~FailsSyntacticValidation(website_url)

Requested == {fetched[i] : i \in 1..Len(fetched)}

(* C29: every attempted fetch counts against the page budget, whether it   *)
(* succeeds or fails: for a valid URL exactly 5 fetches are attempted (the *)
(* default budget), for the first 5 paths of the list, and no later path   *)
(* such as /support is fetched, also when every fetch failed.              *)
C29_FailedFetchesCount ==
    /\ pages_crawled = Len(fetched)
    /\ Len(fetched) = pages_loaded + Cardinality(failed_at)
    /\ CrawlOver =>
          /\ Len(fetched) = 5
          /\ \A i \in 1..5 : fetched[i] = urljoin(website_url, email_paths[i])
    /\ Requested # {} =>
          /\ \A k \in 6..Len(email_paths) :
                urljoin(website_url, email_paths[k]) \notin Requested
          /\ urljoin(website_url, "/support") \notin Requested

(* the five fetches of a site all failed: the last one was for /about *)
C29_Witness ==
    /\ ExtractReturned
    /\ failed_at = {1, 2, 3, 4, 5}
    /\ fetched[5] = "https://site.example/about"
    /\ "https://site.example/support" \notin Requested

(***************************************************************************)
(* Whether the returned list is determined by the candidates               *)
(***************************************************************************)
(* the addresses the sort may place next *)
NextInOrder ==
    {email \in unsorted :
        \A other \in unsorted :
            email_priority(other, get_base_domain(website_url))
                <= email_priority(email, get_base_domain(website_url))}

(* C30: the returned list is a function of the surviving candidates and    *)
(* the base domain: two runs over the same candidates return the same      *)
(* addresses in the same order.  Two runs can differ exactly when, at one  *)
(* of the first 10 positions, more than one address may be placed next.    *)
C30_ResultDetermined ==
    (epc = "sorting" /\ Len(unique_emails) < 10) => Cardinality(NextInOrder) <= 1

============================================================================
